---- MODULE Spec2Model ----
(***************************************************************************)
(* A model of the useCache hook (client/src/hooks/useCache.ts): one hook   *)
(* instance with its React state (data, loading, error), its cacheRef Map, *)
(* the props it was last rendered with (key, ttl), the wall clock read by  *)
(* Date.now(), and the fetcher() promises that are still pending. Further  *)
(* sections run a second instance of the hook next to the first, and the   *)
(* page components with the requests they send to the remote API:          *)
(* AthleteResults, which renders two useCache instances, and Dashboard and *)
(* Competitions, which render none.                                        *)
(***************************************************************************)
EXTENDS Integers, FiniteSets, Sequences, Bags, TLC

\* ---- bounds ----------------------------------------------------------
MaxTime == 2        \* the clock runs over 0..MaxTime
MaxFetches == 2     \* fetcher() is invoked at most this many times in a run

\* ---- input domains ---------------------------------------------------
Keys == {"k1", "k2"}
TTLs == {0, 1}
Versions == {1, 2}
Messages == {"", "Network Error"}

\* ---- values ----------------------------------------------------------
\* useState<T | null>(null): the null payload.
NullData == [for |-> "null", ver |-> 0]
\* useState<string | null>(null): the null error.
NullError == "null"
\* A payload returned by the fetcher that was rendered together with key k.
Payload(k, n) == [for |-> k, ver |-> n]
\* interface CacheEntry<T>
CacheEntry(d, ts, ex) == [data |-> d, timestamp |-> ts, expiry |-> ex]
\* Mutant of ErrorMessage: err.message is stored as it is, without the
\* fallback text.
ErrorMessageRaw(m) == m

\* err.message || 'Failed to fetch data'
ErrorMessage(m) == IF m = "" THEN "Failed to fetch data" ELSE m

\* Map.get: <<>> is undefined, <<e>> is the entry e.
MapGet(map, k) == IF k \in DOMAIN map THEN <<map[k]>> ELSE <<>>
\* Map.set
MapSet(map, k, e) == [x \in DOMAIN map \cup {k} |-> IF x = k THEN e ELSE map[x]]
\* Map.delete
MapDelete(map, k) == [x \in DOMAIN map \ {k} |-> map[x]]

VARIABLES
    key,        \* the key prop of the latest render
    ttl,        \* the ttl prop of the latest render
    data,       \* useState data
    loading,    \* useState loading
    error,      \* useState error
    cacheRef,   \* cacheRef.current : Map<string, CacheEntry>
    now,        \* the value Date.now() returns; constant within one
                \* synchronous block, advanced by Tick between blocks
    inflight,   \* the bag of closures suspended at `await fetcher()`
    mounted,    \* the first effect has run
    fetches,    \* the number of fetcher() invocations so far; in the pages
                \* also the fetchStats() and fetchCompetitions() calls
    last,       \* history: the step taken last
    recording,  \* history: whether this specification keeps written, evicted
    written,    \* history: per stored key, how its entry was written
    evicted,    \* history: keys invalidated and not resolved since
    calls,      \* history: resolve triggers and refresh() calls so far
    budget,     \* the number of fetches this run may start
    peer,       \* a second useCache instance: its props, state, Map and
                \* pending closures
    page,       \* the page component that is mounted, "none" if no page is
    component,  \* the useState values of the mounted page component
    caches,     \* the useCache instances of the mounted page component
    requests    \* the requests sent to the remote API so far

vars == <<key, ttl, data, loading, error, cacheRef, now, inflight, mounted,
          fetches, last, recording, written, evicted, calls, budget, peer,
          page, component, caches, requests>>

hook == <<data, loading, error, cacheRef>>
history == <<recording, written, evicted, calls>>
\* What no step of this hook instance changes.
others == <<budget, peer, page, component, caches, requests>>

\* No closure.
NoFetch ==
    [kind |-> "none", key |-> "", ttl |-> 0, now |-> 0, cached |-> <<>>,
     dropped |-> <<>>, afterFailure |-> FALSE]
\* The closure of fetchData() suspended at line 34: key, ttl, now and cached
\* are its captured variables. Of cached only cached.data is read after the
\* await (lines 46-47), so the closure keeps <<>> or <<cached.data>>.
\* afterFailure is history: the step before was a failed fetch for another
\* key.
ResolveFetch(k, t, n, cached) ==
    [kind |-> "resolve", key |-> k, ttl |-> t, now |-> n,
     cached |-> IF cached = <<>> THEN <<>> ELSE <<cached[1].data>>,
     dropped |-> <<>>,
     afterFailure |-> last.op = "failure" /\ last.key # k]
\* The closure of refresh() suspended at line 68: it captures key and ttl.
\* dropped is history: the data of the entry line 63 deleted, <<>> if none.
RefreshFetch(k, t, cached) ==
    [kind |-> "refresh", key |-> k, ttl |-> t, now |-> 0, cached |-> <<>>,
     dropped |-> IF cached = <<>> THEN <<>> ELSE <<cached[1].data>>,
     afterFailure |-> FALSE]

Pending == BagToSet(inflight)
Await(f) == inflight (+) SetToBag({f})
Settle(f) == inflight (-) SetToBag({f})
CanFetch == fetches < budget

\* Mutant of IsFresh: the boundary now = expiry still counts as fresh.
IsFreshInclusive(cached, t) == cached # <<>> /\ t <= cached[1].expiry

\* The entry is served without a fetch: cached && now < cached.expiry
IsFresh(cached, t) == cached # <<>> /\ t < cached[1].expiry

\* History of a step: the operation, the key it was issued for, the closure
\* it suspended or resumed, the payload it received, whether the key's entry
\* was fresh when the step began, <<err.message>> if the step caught err, and
\* the key's entry when the step began, <<>> if it had none.
Step(op, k, f, v) ==
    [op |-> op, key |-> k, f |-> f, value |-> v,
     fresh |-> IsFresh(MapGet(cacheRef, k), now), message |-> <<>>,
     before |-> MapGet(cacheRef, k)]
\* History of the step in which closure f caught an error with message m.
Failed(f, m) == [Step("failure", f.key, f, NullData) EXCEPT !.message = <<m>>]
\* History of a write: completion time, ttl, operation and payload.
Written(f, v) == [at |-> now, ttl |-> f.ttl, by |-> f.kind, value |-> v]
RecordSet(k, w) == written' = IF recording THEN MapSet(written, k, w) ELSE written
RecordDelete(k) == written' = IF recording THEN MapDelete(written, k) ELSE written
RecordEvict(k) == evicted' = IF recording THEN evicted \cup {k} ELSE evicted
RecordResolve(k) == evicted' = evicted \ {k}
\* History of a resolve trigger or a refresh() call: counted up to
\* budget + 1, a number fetches cannot reach; a run that starts there does
\* not count.
RecordCall == calls' = IF calls > budget THEN calls ELSE calls + 1

\* useState and useRef initial values of an instance rendered with props
\* k, t whose effect has not run yet: lines 14-17.
NewHook(k, t) ==
    [key |-> k, ttl |-> t, data |-> NullData, loading |-> FALSE,
     error |-> NullError, cacheRef |-> << >>, inflight |-> EmptyBag,
     mounted |-> FALSE]
\* No instance is rendered.
NoHook == NewHook("", 0)
\* No page component is mounted.
NoCaches == [athletes |-> NoHook, results |-> NoHook]
NoPage ==
    /\ page = "none"
    /\ component = << >>
    /\ caches = NoCaches
    /\ requests = {}

Start ==
    /\ key \in Keys
    /\ ttl \in TTLs
    /\ data = NullData
    /\ loading = FALSE
    /\ error = NullError
    /\ cacheRef = << >>
    /\ now = 0
    /\ inflight = EmptyBag
    /\ mounted = FALSE
    /\ fetches = 0
    /\ last = [op |-> "init", key |-> key, f |-> NoFetch, value |-> NullData,
               fresh |-> FALSE, message |-> <<>>, before |-> <<>>]
    /\ written = << >>
    /\ evicted = {}

Init ==
    Start /\ recording = FALSE /\ budget = MaxFetches /\ calls = budget + 1
          /\ peer = NoHook /\ NoPage
InitHistory ==
    Start /\ recording = TRUE /\ budget = MaxFetches /\ calls = budget + 1
          /\ peer = NoHook /\ NoPage
\* The run counts resolve triggers and refresh() calls.
InitCalls ==
    Start /\ recording = FALSE /\ budget = MaxFetches /\ calls = 0
          /\ peer = NoHook /\ NoPage
\* The run may invoke fetcher() once more, so that three fetches can overlap.
InitOverlap ==
    Start /\ recording = FALSE /\ budget = MaxFetches + 1 /\ calls = budget + 1
          /\ peer = NoHook /\ NoPage
\* The component renders a second useCache instance next to the first.
InitPeers ==
    Start /\ recording = FALSE /\ budget = MaxFetches /\ calls = budget + 1
          /\ \E k \in Keys, t \in TTLs : peer = NewHook(k, t)
          /\ NoPage
\* No page is mounted yet. The mount of AthleteResults makes two fetches and
\* a search followed by a selection makes two more, so the budget leaves
\* MaxFetches - 1 fetches for the results of the selected athlete. The hook
\* instance of the sections above is not rendered.
InitPages ==
    Start /\ key = "k1" /\ ttl = 0
          /\ recording = FALSE /\ budget = MaxFetches + 3 /\ calls = budget + 1
          /\ peer = NoHook /\ NoPage
\* Mutant of FetchData: an expired entry is evicted when it is found.
FetchDataEvicts(k, t) ==
    LET cached == MapGet(cacheRef, k) IN
    IF IsFresh(cached, now)
    THEN /\ data' = cached[1].data
         /\ last' = Step("resolve", k, NoFetch, NullData)
         /\ UNCHANGED <<loading, error, cacheRef, inflight, fetches>>
    ELSE /\ CanFetch
         /\ cacheRef' = MapDelete(cacheRef, k)
         /\ loading' = TRUE
         /\ error' = NullError
         /\ inflight' = Await(ResolveFetch(k, t, now, cached))
         /\ fetches' = fetches + 1
         /\ last' = Step("resolve", k, ResolveFetch(k, t, now, cached), NullData)
         /\ UNCHANGED data
\* Mutant of FetchData: single-flight, a resolve that finds a fetch for its
\* key pending waits for that fetch instead of invoking fetcher() again.
FetchDataSingleFlight(k, t) ==
    LET cached == MapGet(cacheRef, k) IN
    IF IsFresh(cached, now)
    THEN /\ data' = cached[1].data
         /\ last' = Step("resolve", k, NoFetch, NullData)
         /\ UNCHANGED <<loading, error, cacheRef, inflight, fetches>>
    ELSE IF \E f \in Pending : f.key = k
    THEN /\ loading' = TRUE
         /\ error' = NullError
         /\ last' = Step("resolve", k, NoFetch, NullData)
         /\ UNCHANGED <<data, cacheRef, inflight, fetches>>
    ELSE /\ CanFetch
         /\ loading' = TRUE
         /\ error' = NullError
         /\ inflight' = Await(ResolveFetch(k, t, now, cached))
         /\ fetches' = fetches + 1
         /\ last' = Step("resolve", k, ResolveFetch(k, t, now, cached), NullData)
         /\ UNCHANGED <<data, cacheRef>>

\* The body of the effect, fetchData(), up to its await: run for key k, ttl t.
FetchData(k, t) ==
    LET cached == MapGet(cacheRef, k) IN
    IF IsFresh(cached, now)
    THEN /\ data' = cached[1].data
         /\ last' = Step("resolve", k, NoFetch, NullData)
         /\ UNCHANGED <<loading, error, cacheRef, inflight, fetches>>
    ELSE /\ CanFetch
         /\ loading' = TRUE
         /\ error' = NullError
         /\ inflight' = Await(ResolveFetch(k, t, now, cached))
         /\ fetches' = fetches + 1
         /\ last' = Step("resolve", k, ResolveFetch(k, t, now, cached), NullData)
         /\ UNCHANGED <<data, cacheRef>>

\* First commit of the component: the effect runs for the initial props.
Mount ==
    /\ ~mounted
    /\ mounted' = TRUE
    /\ FetchData(key, ttl)
    /\ RecordResolve(key)
    /\ RecordCall
    /\ UNCHANGED <<key, ttl, now, recording, written, others>>
\* Mutant of Rerender: the effect has a cleanup that cancels what is pending
\* before it runs fetchData() for the new props.
RerenderCancels(k, t) ==
    LET cached == MapGet(cacheRef, k)
        f == ResolveFetch(k, t, now, cached)
    IN  /\ mounted
        /\ <<k, t>> # <<key, ttl>>
        /\ key' = k
        /\ ttl' = t
        /\ IF IsFresh(cached, now)
           THEN /\ data' = cached[1].data
                /\ inflight' = EmptyBag
                /\ last' = Step("resolve", k, NoFetch, NullData)
                /\ UNCHANGED <<loading, error, fetches>>
           ELSE /\ CanFetch
                /\ loading' = TRUE
                /\ error' = NullError
                /\ inflight' = SetToBag({f})
                /\ fetches' = fetches + 1
                /\ last' = Step("resolve", k, f, NullData)
                /\ UNCHANGED data
        /\ RecordResolve(k)
        /\ RecordCall
        /\ UNCHANGED <<cacheRef, now, mounted, recording, written, others>>

\* A render with a changed key or ttl: the effect runs again.
Rerender(k, t) ==
    /\ mounted
    /\ <<k, t>> # <<key, ttl>>
    /\ key' = k
    /\ ttl' = t
    /\ FetchData(k, t)
    /\ RecordResolve(k)
    /\ RecordCall
    /\ UNCHANGED <<now, mounted, recording, written, others>>
\* Mutant of ResolveSuccess: fetchData() without its finally block.
ResolveSuccessStaysLoading(f, n) ==
    LET freshData == Payload(f.key, n)
        entry == CacheEntry(freshData, f.now, f.now + f.ttl)
    IN  /\ f.kind = "resolve"
        /\ cacheRef' = MapSet(cacheRef, f.key, entry)
        /\ data' = freshData
        /\ inflight' = Settle(f)
        /\ last' = Step("success", f.key, f, freshData)
        /\ RecordSet(f.key, Written(f, freshData))
        /\ UNCHANGED <<key, ttl, loading, error, now, mounted, fetches, recording,
                       evicted, calls, others>>

\* Mutant of ResolveSuccess: the entry is stored under the key of the latest
\* render instead of the key the closure captured.
ResolveSuccessActiveKey(f, n) ==
    LET freshData == Payload(f.key, n)
        entry == CacheEntry(freshData, f.now, f.now + f.ttl)
    IN  /\ f.kind = "resolve"
        /\ cacheRef' = MapSet(cacheRef, key, entry)
        /\ data' = freshData
        /\ loading' = FALSE
        /\ inflight' = Settle(f)
        /\ last' = Step("success", f.key, f, freshData)
        /\ RecordSet(key, Written(f, freshData))
        /\ UNCHANGED <<key, ttl, error, now, mounted, fetches, recording, evicted, calls, others>>
\* Mutant of ResolveSuccess: a fetch that replaces an entry goes on exposing
\* the value of the entry it found.
ResolveSuccessExposesCached(f, n) ==
    LET freshData == Payload(f.key, n)
        entry == CacheEntry(freshData, f.now, f.now + f.ttl)
    IN  /\ f.kind = "resolve"
        /\ cacheRef' = MapSet(cacheRef, f.key, entry)
        /\ data' = IF f.cached # <<>> THEN f.cached[1] ELSE freshData
        /\ loading' = FALSE
        /\ inflight' = Settle(f)
        /\ last' = Step("success", f.key, f, freshData)
        /\ RecordSet(f.key, Written(f, freshData))
        /\ UNCHANGED <<key, ttl, error, now, mounted, fetches, recording, evicted, calls, others>>
\* Mutant of ResolveSuccess: the fetch that was started last wins, a fetch
\* that completes after a later resolve has stored its entry leaves that
\* entry and data as they are.
ResolveSuccessKeepsNewer(f, n) ==
    LET freshData == Payload(f.key, n)
        entry == CacheEntry(freshData, f.now, f.now + f.ttl)
        cached == MapGet(cacheRef, f.key)
        newer == cached # <<>> /\ cached[1].timestamp > f.now
    IN  /\ f.kind = "resolve"
        /\ cacheRef' = IF newer THEN cacheRef ELSE MapSet(cacheRef, f.key, entry)
        /\ data' = IF newer THEN data ELSE freshData
        /\ loading' = FALSE
        /\ inflight' = Settle(f)
        /\ last' = Step("success", f.key, f, freshData)
        /\ IF newer THEN UNCHANGED written ELSE RecordSet(f.key, Written(f, freshData))
        /\ UNCHANGED <<key, ttl, error, now, mounted, fetches, recording, evicted, calls, others>>
\* Mutant of ResolveSuccess: the closure calls the fetcher of the latest
\* render, so the value stored under the closure's key is the one fetched
\* for the key of the latest render.
ResolveSuccessLatestFetcher(f, n) ==
    LET freshData == Payload(key, n)
        entry == CacheEntry(freshData, f.now, f.now + f.ttl)
    IN  /\ f.kind = "resolve"
        /\ cacheRef' = MapSet(cacheRef, f.key, entry)
        /\ data' = freshData
        /\ loading' = FALSE
        /\ inflight' = Settle(f)
        /\ last' = Step("success", f.key, f, freshData)
        /\ RecordSet(f.key, Written(f, freshData))
        /\ UNCHANGED <<key, ttl, error, now, mounted, fetches, recording, evicted, calls, others>>

\* fetchData() after its await resolved with payload n: lines 35-42 and 50.
ResolveSuccess(f, n) ==
    LET freshData == Payload(f.key, n)
        entry == CacheEntry(freshData, f.now, f.now + f.ttl)
    IN  /\ f.kind = "resolve"
        /\ cacheRef' = MapSet(cacheRef, f.key, entry)
        /\ data' = freshData
        /\ loading' = FALSE
        /\ inflight' = Settle(f)
        /\ last' = Step("success", f.key, f, freshData)
        /\ RecordSet(f.key, Written(f, freshData))
        /\ UNCHANGED <<key, ttl, error, now, mounted, fetches, recording, evicted, calls, others>>
\* Mutant of ResolveFailure: the stale entry is served and renewed, its
\* expiry is moved to now + ttl.
ResolveFailureRenews(f, m) ==
    /\ f.kind = "resolve"
    /\ error' = ErrorMessage(m)
    /\ data' = IF f.cached # <<>> THEN f.cached[1] ELSE data
    /\ cacheRef' = IF f.cached # <<>>
                   THEN MapSet(cacheRef, f.key, CacheEntry(f.cached[1], now, now + f.ttl))
                   ELSE cacheRef
    /\ loading' = FALSE
    /\ inflight' = Settle(f)
    /\ last' = Failed(f, m)
    /\ UNCHANGED <<key, ttl, now, mounted, fetches, history, others>>

\* Mutant of ResolveFailure: the catch block calls fetcher() once more.
ResolveFailureRetries(f, m) ==
    /\ f.kind = "resolve"
    /\ CanFetch
    /\ error' = ErrorMessage(m)
    /\ fetches' = fetches + 1
    /\ last' = Failed(f, m)
    /\ UNCHANGED <<key, ttl, data, loading, cacheRef, inflight, now, mounted,
                   history, others>>

\* Mutant of ResolveFailure: the catch block without lines 46-48.
ResolveFailureNoFallback(f, m) ==
    /\ f.kind = "resolve"
    /\ error' = ErrorMessage(m)
    /\ loading' = FALSE
    /\ inflight' = Settle(f)
    /\ last' = Failed(f, m)
    /\ UNCHANGED <<key, ttl, data, cacheRef, now, mounted, fetches, history, others>>
\* Mutant of ResolveFailure: the catch block reads the Map again and serves
\* the entry the key has when the fetch fails.
ResolveFailureReadsStore(f, m) ==
    /\ f.kind = "resolve"
    /\ error' = ErrorMessage(m)
    /\ data' = IF f.key \in DOMAIN cacheRef THEN cacheRef[f.key].data ELSE data
    /\ loading' = FALSE
    /\ inflight' = Settle(f)
    /\ last' = Failed(f, m)
    /\ UNCHANGED <<key, ttl, cacheRef, now, mounted, fetches, history, others>>

\* fetchData() after its await rejected with err.message = m: lines 43-51.
ResolveFailure(f, m) ==
    /\ f.kind = "resolve"
    /\ error' = ErrorMessage(m)
    /\ data' = IF f.cached # <<>> THEN f.cached[1] ELSE data
    /\ loading' = FALSE
    /\ inflight' = Settle(f)
    /\ last' = Failed(f, m)
    /\ UNCHANGED <<key, ttl, cacheRef, now, mounted, fetches, history, others>>

\* Mutant of Invalidate: invalidate() also raises the loading flag, as the
\* start of a refetch would.
InvalidateLoading ==
    /\ mounted
    /\ cacheRef' = MapDelete(cacheRef, key)
    /\ data' = NullData
    /\ loading' = TRUE
    /\ last' = Step("invalidate", key, NoFetch, NullData)
    /\ RecordDelete(key)
    /\ RecordEvict(key)
    /\ UNCHANGED <<key, ttl, error, now, inflight, mounted, fetches, recording,
                   calls, others>>

\* invalidate() of the latest render: lines 57-60.
Invalidate ==
    /\ mounted
    /\ cacheRef' = MapDelete(cacheRef, key)
    /\ data' = NullData
    /\ last' = Step("invalidate", key, NoFetch, NullData)
    /\ RecordDelete(key)
    /\ RecordEvict(key)
    /\ UNCHANGED <<key, ttl, loading, error, now, inflight, mounted, fetches,
                   recording, calls, others>>

\* Mutant of Refresh: refresh() without line 63, the entry is kept.
RefreshKeepsEntry ==
    LET f == RefreshFetch(key, ttl, MapGet(cacheRef, key)) IN
    /\ mounted
    /\ CanFetch
    /\ loading' = TRUE
    /\ error' = NullError
    /\ inflight' = Await(f)
    /\ fetches' = fetches + 1
    /\ last' = Step("refresh", key, f, NullData)
    /\ RecordCall
    /\ UNCHANGED <<key, ttl, data, cacheRef, now, mounted, recording, written,
                   evicted, others>>

\* refresh() of the latest render, up to its await: lines 63-68.
Refresh ==
    LET f == RefreshFetch(key, ttl, MapGet(cacheRef, key)) IN
    /\ mounted
    /\ CanFetch
    /\ cacheRef' = MapDelete(cacheRef, key)
    /\ loading' = TRUE
    /\ error' = NullError
    /\ inflight' = Await(f)
    /\ fetches' = fetches + 1
    /\ last' = Step("refresh", key, f, NullData)
    /\ RecordDelete(key)
    /\ RecordCall
    /\ UNCHANGED <<key, ttl, data, now, mounted, recording, evicted, others>>

\* refresh() after its await resolved with payload n: lines 69-76 and 80.
RefreshSuccess(f, n) ==
    LET freshData == Payload(f.key, n)
        entry == CacheEntry(freshData, now, now + f.ttl)
    IN  /\ f.kind = "refresh"
        /\ cacheRef' = MapSet(cacheRef, f.key, entry)
        /\ data' = freshData
        /\ loading' = FALSE
        /\ inflight' = Settle(f)
        /\ last' = Step("success", f.key, f, freshData)
        /\ RecordSet(f.key, Written(f, freshData))
        /\ UNCHANGED <<key, ttl, error, now, mounted, fetches, recording, evicted, calls, others>>
\* Mutant of RefreshFailure: refresh() without its finally block.
RefreshFailureStaysLoading(f, m) ==
    /\ f.kind = "refresh"
    /\ error' = ErrorMessage(m)
    /\ inflight' = Settle(f)
    /\ last' = Failed(f, m)
    /\ UNCHANGED <<key, ttl, data, loading, cacheRef, now, mounted, fetches,
                   history, others>>

\* refresh() after its await rejected with err.message = m: lines 77-81.
RefreshFailure(f, m) ==
    /\ f.kind = "refresh"
    /\ error' = ErrorMessage(m)
    /\ loading' = FALSE
    /\ inflight' = Settle(f)
    /\ last' = Failed(f, m)
    /\ UNCHANGED <<key, ttl, data, cacheRef, now, mounted, fetches, history, others>>

\* Time passes between two synchronous blocks.
Tick ==
    /\ now < MaxTime
    /\ now' = now + 1
    /\ last' = Step("tick", key, NoFetch, NullData)
    /\ UNCHANGED <<key, ttl, hook, inflight, mounted, fetches, history, others>>

Next ==
    \/ Mount
    \/ \E k \in Keys, t \in TTLs : Rerender(k, t)
    \/ \E f \in Pending, n \in Versions : ResolveSuccess(f, n)
    \/ \E f \in Pending, m \in Messages : ResolveFailure(f, m)
    \/ Invalidate
    \/ Refresh
    \/ \E f \in Pending, n \in Versions : RefreshSuccess(f, n)
    \/ \E f \in Pending, m \in Messages : RefreshFailure(f, m)
    \/ Tick

\* The hook alone.
Spec == Init /\ [][Next]_vars
\* The hook with the histories written and evicted kept.
SpecHistory == InitHistory /\ [][Next]_vars
\* The run counts resolve triggers and refresh() calls.
SpecCalls == InitCalls /\ [][Next]_vars
\* The run may invoke fetcher() MaxFetches + 1 times.
SpecOverlap == InitOverlap /\ [][Next]_vars
\* A promise that is pending is settled: the fetch of a closure suspended at
\* `await fetcher()` completes, by success or by failure.
Complete ==
    \E f \in Pending :
        \/ \E n \in Versions : ResolveSuccess(f, n) \/ RefreshSuccess(f, n)
        \/ \E m \in Messages : ResolveFailure(f, m) \/ RefreshFailure(f, m)
\* The hook alone, every fetch that was started completing eventually.
SpecLive == Init /\ [][Next]_vars /\ WF_vars(Complete)

\* ---- a hook instance as a value ----------------------------------------
\* The hook's code as it acts on one instance h, held as a record: every
\* cacheRef.current and every setState is that instance's own.
\* Lines 25-28: the entry cached is served.
HookHit(h, k, t, cached) ==
    [h EXCEPT !.key = k, !.ttl = t, !.mounted = TRUE, !.data = cached[1].data]
\* Lines 30-34: closure f is suspended at `await fetcher()`.
HookFetch(h, k, t, f) ==
    [h EXCEPT !.key = k, !.ttl = t, !.mounted = TRUE, !.loading = TRUE,
              !.error = NullError, !.inflight = @ (+) SetToBag({f})]
\* Lines 35-42 and 50 for fetchData(), 69-76 and 80 for refresh(), at clock t.
HookSuccess(h, f, freshData, t) ==
    LET from == IF f.kind = "resolve" THEN f.now ELSE t
        entry == CacheEntry(freshData, from, from + f.ttl)
    IN  [h EXCEPT !.cacheRef = MapSet(@, f.key, entry),
                  !.data = freshData,
                  !.loading = FALSE,
                  !.inflight = @ (-) SetToBag({f})]
\* Lines 43-51 for fetchData(), 77-81 for refresh().
HookFailure(h, f, m) ==
    [h EXCEPT !.error = ErrorMessage(m),
              !.data = IF f.kind = "resolve" /\ f.cached # <<>>
                       THEN f.cached[1] ELSE @,
              !.loading = FALSE,
              !.inflight = @ (-) SetToBag({f})]
\* Lines 57-60.
HookInvalidate(h) ==
    [h EXCEPT !.cacheRef = MapDelete(@, h.key), !.data = NullData]
\* Lines 63-68: closure f is suspended at `await fetcher()`.
HookRefresh(h, f) ==
    [h EXCEPT !.cacheRef = MapDelete(@, h.key), !.loading = TRUE,
              !.error = NullError, !.inflight = @ (+) SetToBag({f})]

\* ---- the second instance -----------------------------------------------
PeerStep(op, k, f, v) ==
    [op |-> op, key |-> k, f |-> f, value |-> v,
     fresh |-> IsFresh(MapGet(peer.cacheRef, k), now), message |-> <<>>,
     before |-> MapGet(peer.cacheRef, k)]
PeerFrame ==
    UNCHANGED <<key, ttl, hook, inflight, mounted, now, history, budget,
                page, component, caches, requests>>

\* Mutant of PeerFetchData: cacheRef is one Map shared by all instances, the
\* second instance looks its key up in the first instance's Map.
PeerFetchDataShared(k, t) ==
    LET cached == MapGet(cacheRef, k)
        f == ResolveFetch(k, t, now, cached)
    IN  IF IsFresh(cached, now)
        THEN /\ peer' = HookHit(peer, k, t, cached)
             /\ last' = PeerStep("peer.resolve", k, NoFetch, NullData)
             /\ UNCHANGED fetches
        ELSE /\ CanFetch
             /\ peer' = HookFetch(peer, k, t, f)
             /\ fetches' = fetches + 1
             /\ last' = PeerStep("peer.resolve", k, f, NullData)

\* The effect of the second instance for props k, t, up to its await:
\* lines 20-34.
PeerFetchData(k, t) ==
    LET cached == MapGet(peer.cacheRef, k)
        f == ResolveFetch(k, t, now, cached)
    IN  IF IsFresh(cached, now)
        THEN /\ peer' = HookHit(peer, k, t, cached)
             /\ last' = PeerStep("peer.resolve", k, NoFetch, NullData)
             /\ UNCHANGED fetches
        ELSE /\ CanFetch
             /\ peer' = HookFetch(peer, k, t, f)
             /\ fetches' = fetches + 1
             /\ last' = PeerStep("peer.resolve", k, f, NullData)

\* First commit of the second instance.
PeerMount ==
    /\ ~peer.mounted
    /\ PeerFetchData(peer.key, peer.ttl)
    /\ PeerFrame

\* A render of the second instance with a changed key or ttl.
PeerRerender(k, t) ==
    /\ peer.mounted
    /\ <<k, t>> # <<peer.key, peer.ttl>>
    /\ PeerFetchData(k, t)
    /\ PeerFrame

\* The second instance is unmounted and a new instance is created in its
\* place with props k, t. The closures the old instance left pending write to
\* the old instance's Map and state only, which nothing can read any more.
PeerRemount(k, t) ==
    /\ peer.mounted
    /\ peer' = NewHook(k, t)
    /\ last' = PeerStep("peer.create", k, NoFetch, NullData)
    /\ UNCHANGED fetches
    /\ PeerFrame

\* A fetch of the second instance completes successfully with payload n.
PeerSuccess(f, n) ==
    /\ BagIn(f, peer.inflight)
    /\ peer' = HookSuccess(peer, f, Payload(f.key, n), now)
    /\ last' = PeerStep("peer.success", f.key, f, Payload(f.key, n))
    /\ UNCHANGED fetches
    /\ PeerFrame

\* A fetch of the second instance fails with err.message = m.
PeerFailure(f, m) ==
    /\ BagIn(f, peer.inflight)
    /\ peer' = HookFailure(peer, f, m)
    /\ last' = PeerStep("peer.failure", f.key, f, NullData)
    /\ UNCHANGED fetches
    /\ PeerFrame

\* invalidate() of the second instance.
PeerInvalidate ==
    /\ peer.mounted
    /\ peer' = HookInvalidate(peer)
    /\ last' = PeerStep("peer.invalidate", peer.key, NoFetch, NullData)
    /\ UNCHANGED fetches
    /\ PeerFrame

\* refresh() of the second instance, up to its await.
PeerRefresh ==
    LET f == RefreshFetch(peer.key, peer.ttl, MapGet(peer.cacheRef, peer.key)) IN
    /\ peer.mounted
    /\ CanFetch
    /\ peer' = HookRefresh(peer, f)
    /\ fetches' = fetches + 1
    /\ last' = PeerStep("peer.refresh", peer.key, f, NullData)
    /\ PeerFrame

NextPeers ==
    \/ Next
    \/ PeerMount
    \/ \E k \in Keys, t \in TTLs : PeerRerender(k, t)
    \/ \E k \in Keys, t \in TTLs : PeerRemount(k, t)
    \/ \E f \in BagToSet(peer.inflight), n \in Versions : PeerSuccess(f, n)
    \/ \E f \in BagToSet(peer.inflight), m \in Messages : PeerFailure(f, m)
    \/ PeerInvalidate
    \/ PeerRefresh

\* Two useCache instances side by side.
SpecPeers == InitPeers /\ [][NextPeers]_vars

\* ---- the pages ---------------------------------------------------------
\* One page component is mounted at a time: Dashboard, Competitions or
\* AthleteResults. AthleteResults renders two useCache instances, athletes
\* (the athlete search) and results (the results of the selected athlete);
\* Dashboard and Competitions render none. The clock of the pages counts
\* minutes.
Pages == {"Dashboard", "Competitions", "AthleteResults"}
SearchTexts == {"", "jones"}
PageNumbers == {1, 2}
AthleteIds == {7}
\* 2 * 60 * 1000 ms
CacheMinutes == 2

\* !activeSearchText
FalsyText(s) == s = ""
\* !selectedAthlete, a number | null held as <<n>> or <<>>
FalsyAthlete(a) == a = <<>> \/ a[1] = 0

\* `athletes-search-${activeSearchText}-page-${athletesPage}`
AthletesKey(text, pg) ==
    "athletes-search-" \o text \o "-page-" \o ToString(pg)
\* `athlete-results-${selectedAthlete}-page-${resultsPage}`
ResultsKey(a, pg) ==
    "athlete-results-" \o (IF a = <<>> THEN "null" ELSE ToString(a[1]))
        \o "-page-" \o ToString(pg)

\* The literals of lines 100 and 124.
EmptyAthletes ==
    [athletes |-> <<>>,
     pagination |-> [page |-> 1, per_page |-> 20, total |-> 0, pages |-> 0]]
EmptyResults ==
    [results |-> <<>>, athlete_id |-> 0, page |-> 1, per_page |-> 50,
     total |-> 0]

\* A request to the remote API: its path, its query, and the functions on
\* the call chain that led to axios.get, outermost first.
Request(url, query, chain) == [url |-> url, query |-> query, chain |-> chain]

\* What the remote API can answer.
AthletesResponses(pg) ==
    {[athletes |-> <<>>,
      pagination |-> [page |-> pg, per_page |-> 20, total |-> 0, pages |-> 0]],
     [athletes |-> <<7>>,
      pagination |-> [page |-> pg, per_page |-> 20, total |-> 21, pages |-> 2]]}
ResultsResponses(a, pg) ==
    {[results |-> <<"result">>, athlete_id |-> a, page |-> pg,
      per_page |-> 100, total |-> 101]}

\* Mutant of AthletesFetcher: the fetcher without line 100.
AthletesFetcherUnguarded(text, pg, via) ==
    [request |-> <<Request("/api/athletes",
                           "search=" \o text \o "&page=" \o ToString(pg),
                           <<via, "fetcher">>)>>,
     value |-> <<>>]

\* The fetcher of the athletes instance, rendered with activeSearchText =
\* text and athletesPage = pg and called by the hook's function via: the
\* promise it returns, either already settled with a value or waiting for the
\* answer to the request it sent. getAuthHeaders() cannot reject (lines
\* 84-90), so axios.get is always reached once line 100 is passed.
AthletesFetcher(text, pg, via) ==
    IF FalsyText(text)
    THEN [request |-> <<>>, value |-> <<EmptyAthletes>>]
    ELSE [request |-> <<Request("/api/athletes",
                                "search=" \o text \o "&page=" \o ToString(pg),
                                <<via, "fetcher">>)>>,
          value |-> <<>>]

\* The fetcher of the results instance, rendered with selectedAthlete = a
\* and resultsPage = pg.
ResultsFetcher(a, pg, via) ==
    IF FalsyAthlete(a)
    THEN [request |-> <<>>, value |-> <<EmptyResults>>]
    ELSE [request |-> <<Request("/api/athletes/" \o ToString(a[1]) \o "/results",
                                "page=" \o ToString(pg),
                                <<via, "fetcher">>)>>,
          value |-> <<>>]

\* The fetcher and the key of instance c for the component state s.
Fetcher(c, s, via) ==
    IF c = "athletes"
    THEN AthletesFetcher(s.activeSearchText, s.athletesPage, via)
    ELSE ResultsFetcher(s.selectedAthlete, s.resultsPage, via)
CacheKey(c, s) ==
    IF c = "athletes"
    THEN AthletesKey(s.activeSearchText, s.athletesPage)
    ELSE ResultsKey(s.selectedAthlete, s.resultsPage)
\* What the promise of closure f can resolve with.
Resolutions(c, f, s) ==
    IF f.call.value # <<>> THEN {f.call.value[1]}
    ELSE IF c = "athletes" THEN AthletesResponses(f.state.athletesPage)
    ELSE ResultsResponses(f.state.selectedAthlete[1], f.state.resultsPage)

\* useState initial values: AthleteResults lines 71-75, Dashboard lines
\* 21-22, Competitions lines 36-43. ran: the mount effect has run; pending:
\* the promises of axios.get the component itself awaits.
AthleteResultsState ==
    [selectedAthlete |-> <<>>, athletesPage |-> 1, resultsPage |-> 1,
     activeSearchText |-> ""]
DashboardState ==
    [stats |-> <<>>, loading |-> TRUE, ran |-> FALSE, pending |-> EmptyBag]
CompetitionsState ==
    [competitions |-> <<>>, loading |-> FALSE, searchText |-> "",
     current |-> 1, ran |-> FALSE, pending |-> EmptyBag]

Elements(seq) == {seq[i] : i \in DOMAIN seq}
PageStep(op, k, f, v) ==
    [op |-> op, key |-> k, f |-> f, value |-> v, fresh |-> FALSE,
     message |-> <<>>, before |-> <<>>]
PageFrame ==
    UNCHANGED <<key, ttl, hook, inflight, mounted, now, history, budget, peer>>

\* The router mounts page p; the page that was mounted is unmounted and its
\* state, its useCache instances and what it awaited are dropped.
Navigate(p) ==
    /\ p # page
    /\ page' = p
    /\ component' = IF p = "Dashboard" THEN DashboardState
                    ELSE IF p = "Competitions" THEN CompetitionsState
                    ELSE AthleteResultsState
    /\ caches' = IF p = "AthleteResults"
                 THEN [athletes |-> NewHook(CacheKey("athletes", AthleteResultsState),
                                            CacheMinutes),
                       results |-> NewHook(CacheKey("results", AthleteResultsState),
                                           CacheMinutes)]
                 ELSE NoCaches
    /\ last' = PageStep("navigate", p, NoFetch, NullData)
    /\ UNCHANGED <<requests, fetches>>
    /\ PageFrame

\* The effect of instance c for the component state s, up to its await:
\* useCache lines 20-34 with the key and the fetcher of AthleteResults lines
\* 97-118 (athletes) or 121-137 (results).
CacheResolve(c, s) ==
    LET h == caches[c]
        k == CacheKey(c, s)
        cached == MapGet(h.cacheRef, k)
        f == ResolveFetch(k, CacheMinutes, now, cached)
                @@ [call |-> Fetcher(c, s, "useCache.fetchData"), state |-> s]
    IN  IF IsFresh(cached, now)
        THEN /\ caches' = [caches EXCEPT ![c] = HookHit(h, k, CacheMinutes, cached)]
             /\ last' = PageStep(c \o ".resolve", k, NoFetch, NullData)
             /\ UNCHANGED <<requests, fetches>>
        ELSE /\ CanFetch
             /\ caches' = [caches EXCEPT ![c] = HookFetch(h, k, CacheMinutes, f)]
             /\ requests' = requests \cup Elements(f.call.request)
             /\ fetches' = fetches + 1
             /\ last' = PageStep(c \o ".resolve", k, f, NullData)

\* First commit of AthleteResults: the effects of its two instances run in
\* the order of the two useCache calls.
CacheMount(c) ==
    /\ page = "AthleteResults"
    /\ ~caches[c].mounted
    /\ c = "results" => caches["athletes"].mounted
    /\ CacheResolve(c, component)
    /\ UNCHANGED <<page, component>>
    /\ PageFrame

\* A state change of AthleteResults to s: the instance whose key changed runs
\* its effect again.
Update(s) ==
    /\ page = "AthleteResults"
    /\ caches["athletes"].mounted /\ caches["results"].mounted
    /\ component' = s
    /\ \E c \in {"athletes", "results"} :
          /\ CacheKey(c, s) # CacheKey(c, component)
          /\ \A c2 \in {"athletes", "results"} \ {c} :
                CacheKey(c2, s) = CacheKey(c2, component)
          /\ CacheResolve(c, s)
    /\ UNCHANGED page
    /\ PageFrame

\* The search button or Enter: lines 277-290.
HandleSearch(text) ==
    Update([component EXCEPT !.activeSearchText = text, !.athletesPage = 1])
\* handleAthletesPageChange, lines 146-148; the table is shown when the
\* search found athletes (line 300).
HandleAthletesPageChange(pg) ==
    /\ page = "AthleteResults"
    /\ caches["athletes"].data # NullData
    /\ caches["athletes"].data.athletes # <<>>
    /\ Update([component EXCEPT !.athletesPage = pg])
\* handleAthleteSelect, lines 140-143, for a row of the table.
HandleAthleteSelect(id) ==
    /\ page = "AthleteResults"
    /\ caches["athletes"].data # NullData
    /\ id \in Elements(caches["athletes"].data.athletes)
    /\ Update([component EXCEPT !.selectedAthlete = <<id>>, !.resultsPage = 1])
\* handleResultsPageChange, lines 150-152; the table is shown when an
\* athlete is selected (line 431).
HandleResultsPageChange(pg) ==
    /\ page = "AthleteResults"
    /\ ~FalsyAthlete(component.selectedAthlete)
    /\ Update([component EXCEPT !.resultsPage = pg])

\* The Refresh button, line 418: refresh() of the results instance, up to its
\* await. The button is shown when the selected athlete is among the athletes
\* found (line 371).
RefreshResults ==
    LET h == caches["results"]
        f == RefreshFetch(h.key, h.ttl, MapGet(h.cacheRef, h.key))
                @@ [call |-> Fetcher("results", component, "useCache.refresh"),
                    state |-> component]
    IN  /\ page = "AthleteResults"
        /\ h.mounted
        /\ ~FalsyAthlete(component.selectedAthlete)
        /\ caches["athletes"].data # NullData
        /\ component.selectedAthlete[1] \in Elements(caches["athletes"].data.athletes)
        /\ CanFetch
        /\ caches' = [caches EXCEPT !["results"] = HookRefresh(h, f)]
        /\ requests' = requests \cup Elements(f.call.request)
        /\ fetches' = fetches + 1
        /\ last' = PageStep("results.refresh", h.key, f, NullData)
        /\ UNCHANGED <<page, component>>
        /\ PageFrame

\* The promise of closure f of instance c resolves with v.
CacheSuccess(c, f, v) ==
    /\ BagIn(f, caches[c].inflight)
    /\ v \in Resolutions(c, f, component)
    /\ caches' = [caches EXCEPT ![c] = HookSuccess(caches[c], f, v, now)]
    /\ last' = PageStep(c \o ".success", f.key, f, v)
    /\ UNCHANGED <<page, component, requests, fetches>>
    /\ PageFrame

\* The promise of closure f of instance c rejects: its request failed.
CacheFailure(c, f, m) ==
    /\ BagIn(f, caches[c].inflight)
    /\ f.call.request # <<>>
    /\ caches' = [caches EXCEPT ![c] = HookFailure(caches[c], f, m)]
    /\ last' = PageStep(c \o ".failure", f.key, f, NullData)
    /\ UNCHANGED <<page, component, requests, fetches>>
    /\ PageFrame

\* Dashboard lines 24-30: the mount effect calls fetchStats(), which calls
\* axios.get and awaits it.
DashboardEffect ==
    LET r == Request("/api/stats", "", <<"Dashboard.useEffect", "fetchStats">>) IN
    /\ page = "Dashboard"
    /\ ~component.ran
    /\ CanFetch
    /\ component' = [component EXCEPT !.ran = TRUE, !.pending = @ (+) SetToBag({r})]
    /\ requests' = requests \cup {r}
    /\ fetches' = fetches + 1
    /\ last' = PageStep("dashboard.fetch", "", NoFetch, NullData)
    /\ UNCHANGED <<page, caches>>
    /\ PageFrame

\* Dashboard lines 31-37: the answer to r arrives (ok) or the request fails.
DashboardSettle(r, ok) ==
    /\ page = "Dashboard"
    /\ BagIn(r, component.pending)
    /\ component' = [component EXCEPT
                        !.stats = IF ok THEN <<"stats">> ELSE @,
                        !.loading = FALSE,
                        !.pending = @ (-) SetToBag({r})]
    /\ last' = PageStep("dashboard.settle", "", NoFetch, NullData)
    /\ UNCHANGED <<page, caches, requests, fetches>>
    /\ PageFrame

\* Competitions lines 47-60: fetchCompetitions() for the state s, up to its
\* await.
FetchCompetitions(s) ==
    LET r == Request("/api/competitions",
                     "page=" \o ToString(s.current)
                        \o (IF s.searchText = "" THEN ""
                            ELSE "&search=" \o s.searchText),
                     <<"Competitions.useEffect", "fetchCompetitions">>)
    IN  /\ CanFetch
        /\ component' = [s EXCEPT !.ran = TRUE, !.loading = TRUE,
                                  !.pending = @ (+) SetToBag({r})]
        /\ requests' = requests \cup {r}
        /\ fetches' = fetches + 1
        /\ last' = PageStep("competitions.fetch", "", NoFetch, NullData)
        /\ UNCHANGED <<page, caches>>
        /\ PageFrame

\* First commit of Competitions.
CompetitionsEffect ==
    /\ page = "Competitions"
    /\ ~component.ran
    /\ FetchCompetitions(component)

\* handleSearch, lines 83-86, or handleTableChange, lines 75-81: a changed
\* dependency runs the effect again.
CompetitionsChange(text, pg) ==
    /\ page = "Competitions"
    /\ component.ran
    /\ <<text, pg>> # <<component.searchText, component.current>>
    /\ text # component.searchText => pg = 1
    /\ FetchCompetitions([component EXCEPT !.searchText = text, !.current = pg])

\* Competitions lines 62-72: the answer to r arrives (ok) or the request
\* fails.
CompetitionsSettle(r, ok) ==
    /\ page = "Competitions"
    /\ BagIn(r, component.pending)
    /\ component' = [component EXCEPT
                        !.competitions = IF ok THEN <<r.query>> ELSE @,
                        !.loading = FALSE,
                        !.pending = @ (-) SetToBag({r})]
    /\ last' = PageStep("competitions.settle", "", NoFetch, NullData)
    /\ UNCHANGED <<page, caches, requests, fetches>>
    /\ PageFrame

NextPages ==
    \/ \E p \in Pages : Navigate(p)
    \/ \E c \in {"athletes", "results"} : CacheMount(c)
    \/ \E text \in SearchTexts : HandleSearch(text)
    \/ \E pg \in PageNumbers : HandleAthletesPageChange(pg)
    \/ \E id \in AthleteIds : HandleAthleteSelect(id)
    \/ \E pg \in PageNumbers : HandleResultsPageChange(pg)
    \/ RefreshResults
    \/ \E c \in {"athletes", "results"} :
          \E f \in BagToSet(caches[c].inflight) :
             \E v \in Resolutions(c, f, component) : CacheSuccess(c, f, v)
    \/ \E c \in {"athletes", "results"} :
          \E f \in BagToSet(caches[c].inflight), m \in Messages : CacheFailure(c, f, m)
    \/ DashboardEffect
    \/ \E ok \in BOOLEAN :
          \E r \in (IF page = "Dashboard" THEN BagToSet(component.pending) ELSE {}) :
             DashboardSettle(r, ok)
    \/ CompetitionsEffect
    \/ \E text \in SearchTexts, pg \in PageNumbers : CompetitionsChange(text, pg)
    \/ \E ok \in BOOLEAN :
          \E r \in (IF page = "Competitions" THEN BagToSet(component.pending) ELSE {}) :
             CompetitionsSettle(r, ok)
    \/ Tick

\* The pages and their remote requests.
SpecPages == InitPages /\ [][NextPages]_vars

\* ======================================================================
\* Properties
\* ======================================================================
\* The step just taken invoked fetcher().
Invoked == fetches' = fetches + 1
\* The entries of all keys but k are the same before and after the step.
OthersKept(k) ==
    \A k2 \in Keys \ {k} : MapGet(cacheRef', k2) = MapGet(cacheRef, k2)

\* C1 (Freshness): if a resolve for a key completed successfully at time t0
\* with time-to-live ttl and no invalidate or refresh for that key happened
\* since, a resolve for that key starting at t1 with t0 <= t1 < t0 + ttl
\* exposes the fetched value and does not invoke fetcher().
C1_Freshness ==
    [][(/\ last'.op = "resolve"
        /\ last'.key \in DOMAIN written
        /\ written[last'.key].by = "resolve"
        /\ written[last'.key].at <= now
        /\ now < written[last'.key].at + written[last'.key].ttl)
       => (data' = written[last'.key].value /\ ~Invoked)]_vars

\* C2 (Cache-hit request state): a resolve that finds a fresh entry leaves
\* data = the entry's value, loading = false and error = null.
C2_CacheHitState ==
    [][(last'.op = "resolve" /\ last'.fresh)
       => (/\ data' = cacheRef[last'.key].data
           /\ loading' = FALSE
           /\ error' = NullError)]_vars

\* C3 (Stale-on-failure): when the fetch of a resolve that found an entry
\* (expired, or it would not have fetched) fails, data becomes the value of
\* that entry, error is non-null, loading is false, and the failure path
\* leaves the store as it is.
C3_StaleOnFailure ==
    [][(/\ last'.op = "failure"
        /\ last'.f.kind = "resolve"
        /\ last'.f.cached # <<>>)
       => (/\ data' = last'.f.cached[1]
           /\ error' # NullError
           /\ loading' = FALSE
           /\ cacheRef' = cacheRef)]_vars
\* Witness of C3: a resolve that had found an entry has just failed.
C3_Witness ==
    /\ last.op = "failure"
    /\ last.f.kind = "resolve"
    /\ last.f.cached # <<>>
    /\ data = last.f.cached[1]
    /\ error # NullError

\* C4 (Empty-on-failure-without-prior-entry): when the fetch of a resolve
\* that found no entry for its key fails, data is null and error is non-null.
\* Stated for the resolve of the active key and the failures at which that
\* key still has no entry, so that neither a superseded fetch nor an
\* overlapping fetch for the same key accounts for the data.
C4_EmptyOnFailure ==
    [][(/\ last'.op = "failure"
        /\ last'.f.kind = "resolve"
        /\ last'.f.cached = <<>>
        /\ last'.key = key
        /\ last'.key \notin DOMAIN cacheRef)
       => (data' = NullData /\ error' # NullError)]_vars

\* C5 (Expiry triggers refetch): an entry stored with freshness start t0
\* (its timestamp) and time-to-live ttl makes every resolve for its key that
\* starts at t1 >= t0 + ttl invoke fetcher(); with ttl = 0 every resolve does.
C5_ExpiryRefetch ==
    [][(/\ last'.op = "resolve"
        /\ last'.key \in DOMAIN cacheRef
        /\ last'.key \in DOMAIN written
        /\ now >= cacheRef[last'.key].timestamp + written[last'.key].ttl)
       => Invoked]_vars
\* Witness of C5: a resolve at the boundary t1 = t0 + ttl, with ttl > 0, has
\* just invoked fetcher().
C5_Witness ==
    /\ last.op = "resolve"
    /\ last.f # NoFetch
    /\ key \in DOMAIN written
    /\ written[key].ttl > 0
    /\ now = cacheRef[key].timestamp + written[key].ttl

\* C6 (Invalidate clears): right after invalidate() the store has no entry
\* for the key and data is null; the next resolve for that key invokes
\* fetcher().
C6_InvalidateClears ==
    [][/\ last'.op = "invalidate"
            => (last'.key \notin DOMAIN cacheRef' /\ data' = NullData)
       /\ (last'.op = "resolve" /\ last'.key \in evicted) => Invoked]_vars

\* C7 (Invalidate does not trigger a refetch): invalidate() invokes no
\* fetcher() and starts no resolve, leaves loading, error and the entries of
\* the other keys unchanged; with no fetch in flight data stays null until a
\* resolve (key or ttl change) or a refresh.
C7_InvalidateNoRefetch ==
    [][/\ last'.op = "invalidate"
            => (/\ ~Invoked
                /\ inflight' = inflight
                /\ loading' = loading
                /\ error' = error
                /\ <<key', ttl'>> = <<key, ttl>>
                /\ OthersKept(last'.key))
       /\ (/\ data = NullData
           /\ inflight = EmptyBag
           /\ last'.op \notin {"resolve", "refresh"})
            => (data' = NullData /\ inflight' = EmptyBag)]_vars
\* Witness of C7: invalidate() was called while a fetch was in flight and
\* another key had an entry.
C7_Witness ==
    /\ last.op = "invalidate"
    /\ loading
    /\ inflight # EmptyBag
    /\ DOMAIN cacheRef # {}
    /\ data = NullData

\* C8 (Refresh bypasses freshness): refresh() on a key whose entry is fresh
\* removes the entry, sets loading = true and error = null and invokes
\* fetcher() once; when that fetch succeeds its payload is stored under the
\* key with a window that starts at the completion, and is exposed as data.
C8_RefreshBypasses ==
    [][/\ (last'.op = "refresh" /\ last'.fresh)
            => (/\ last'.key \notin DOMAIN cacheRef'
                /\ loading' = TRUE
                /\ error' = NullError
                /\ Invoked
                /\ last'.f.kind = "refresh"
                /\ inflight' = Await(last'.f))
       /\ (last'.op = "success" /\ last'.f.kind = "refresh")
            => (/\ MapGet(cacheRef', last'.key) =
                     <<CacheEntry(last'.value, now', now' + last'.f.ttl)>>
                /\ data' = last'.value)]_vars
\* Witness of C8: refresh() has just been called on a fresh entry.
C8_Witness ==
    /\ last.op = "refresh"
    /\ last.fresh
    /\ last.f.dropped # <<>>
    /\ loading

\* C9 (Refresh failure applies no stale fallback): when the fetch of a
\* refresh() that discarded an entry with value v fails, error is non-null,
\* loading is false, the store has no entry for the key and data is not v.
C9_RefreshFailureNoFallback ==
    [][(/\ last'.op = "failure"
        /\ last'.f.kind = "refresh"
        /\ last'.f.dropped # <<>>)
       => (/\ error' # NullError
           /\ loading' = FALSE
           /\ last'.key \notin DOMAIN cacheRef'
           /\ data' # last'.f.dropped[1])]_vars

\* C10 (Key isolation): a step of an operation issued for key k1 (resolve,
\* invalidate, refresh, or the completion of their fetch) leaves the entry of
\* every other key as it was.
C10_KeyIsolation ==
    [][OthersKept(last'.key)]_vars
\* Witness of C10: a fetch issued for a key that is no longer the active one
\* has completed and written while the active key had an entry.
C10_Witness ==
    /\ last.op = "success"
    /\ last.key # key
    /\ last.key \in DOMAIN cacheRef
    /\ key \in DOMAIN cacheRef

\* ---- C11 -------------------------------------------------------------
\* C11 (No entry on failure): a step in which a fetch fails, started by
\* resolve or by refresh, leaves the whole store as it was, and a key whose
\* entry is new or differs from the one before the step is the key of a fetch
\* that completed successfully in that step.
C11_NoEntryOnFailure ==
    [][/\ last'.op = "failure" => cacheRef' = cacheRef
       /\ \A k \in Keys :
            (MapGet(cacheRef', k) # <<>> /\ MapGet(cacheRef', k) # MapGet(cacheRef, k))
            => (last'.op = "success" /\ last'.key = k)]_vars
\* Witness of C11: a resolve fetch has just failed for a key whose expired
\* entry is still in the store with the value the failed fetch saw.
C11_Witness ==
    /\ last.op = "failure"
    /\ last.f.kind = "resolve"
    /\ last.key \in DOMAIN cacheRef
    /\ last.f.cached = <<cacheRef[last.key].data>>
    /\ cacheRef[last.key].expiry <= now

\* ---- C12 -------------------------------------------------------------
\* C12 (Entries retained across key changes): a step that changes the key or
\* the ttl is a resolve step for the new key; a resolve step, run for the
\* mount or for a changed key or ttl, leaves the store as it was; and a key
\* that leaves the store in a step is the key that invalidate() or refresh()
\* was called for in that step.
C12_EntriesRetained ==
    [][/\ <<key', ttl'>> # <<key, ttl>> => (last'.op = "resolve" /\ last'.key = key')
       /\ last'.op = "resolve" => cacheRef' = cacheRef
       /\ \A k \in DOMAIN cacheRef \ DOMAIN cacheRef' :
            last'.op \in {"invalidate", "refresh"} /\ last'.key = k]_vars
\* Witness of C12: the key has just changed, the new key is being fetched
\* and the entry of another key is still in the store, already expired.
C12_Witness ==
    /\ last.op = "resolve"
    /\ last.f # NoFetch
    /\ \E k \in DOMAIN cacheRef : k # last.key /\ cacheRef[k].expiry <= now

\* ---- C13 -------------------------------------------------------------
\* C13 (No automatic retry): a failure step invokes nothing and only settles
\* the failed closure; fetcher() is invoked only by a resolve step, at most
\* once, and by a refresh step, exactly once, each invocation suspending one
\* closure; so the number of invocations never exceeds the number of resolve
\* triggers plus refresh() calls.
C13_NoRetry ==
    /\ [](fetches <= calls /\ BagCardinality(inflight) <= fetches)
    /\ [][/\ last'.op = "failure" => (fetches' = fetches /\ inflight' = Settle(last'.f))
          /\ fetches' # fetches => (Invoked /\ last'.op \in {"resolve", "refresh"})
          /\ last'.op = "refresh" => (Invoked /\ inflight' = Await(last'.f))
          /\ last'.op = "resolve" =>
                IF last'.f = NoFetch
                THEN fetches' = fetches /\ inflight' = inflight
                ELSE Invoked /\ inflight' = Await(last'.f)
          /\ last'.op \notin {"resolve", "refresh"} =>
                BagCardinality(inflight') <= BagCardinality(inflight)]_vars
\* Witness of C13: the last of the fetches the run may make has just failed,
\* nothing is pending, and the run has counted one more trigger or refresh()
\* call than invocations: a trigger was served from the store.
C13_Witness ==
    /\ last.op = "failure"
    /\ fetches = budget
    /\ calls = fetches + 1
    /\ inflight = EmptyBag

\* ---- C14 -------------------------------------------------------------
\* C14 (Store usable after a failure): a resolve for a key with no fresh
\* entry, made right after a fetch for another key failed, invokes fetcher(),
\* and when that fetch succeeds its value is the entry of its key, data is
\* that value, loading is false and error is null.
C14_UsableAfterFailure ==
    [][/\ (last'.op = "resolve" /\ last.op = "failure" /\ last.key # last'.key
             /\ ~last'.fresh)
          => (Invoked /\ last'.f.afterFailure /\ inflight' = Await(last'.f))
       /\ (last'.op = "success" /\ last'.f.kind = "resolve" /\ last'.f.afterFailure)
          => /\ last'.key \in DOMAIN cacheRef'
             /\ cacheRef'[last'.key].data = last'.value
             /\ data' = last'.value
             /\ loading' = FALSE
             /\ error' = NullError]_vars

\* ---- C15 -------------------------------------------------------------
\* C15 (Loading sequence of one resolve): a hook instance that has not run
\* its effect has data null, loading false, error null and an empty store; a
\* resolve on a key with no fresh entry leaves loading true and error null
\* and invokes fetcher() once; loading, once true, stays true until a fetch
\* completes; a successful completion exposes the fetched value with loading
\* false; and a later resolve of a key at a time less than ttl after the
\* clock reading of the resolve that stored its entry exposes the stored
\* value and invokes nothing.
C15_LoadingSequence ==
    /\ [](~mounted => /\ data = NullData
                      /\ loading = FALSE
                      /\ error = NullError
                      /\ cacheRef = << >>
                      /\ fetches = 0)
    /\ [][/\ (last'.op = "resolve" /\ ~last'.fresh)
             => /\ loading' = TRUE
                /\ error' = NullError
                /\ Invoked
                /\ inflight' = Await(last'.f)
          /\ (loading /\ last'.op \notin {"success", "failure"}) => loading'
          /\ (last'.op = "success" /\ last'.f.kind = "resolve")
             => (data' = last'.value /\ loading' = FALSE)
          /\ (/\ last'.op = "resolve"
              /\ last'.key \in DOMAIN written
              /\ written[last'.key].by = "resolve"
              /\ now < cacheRef[last'.key].timestamp + written[last'.key].ttl)
             => /\ data' = written[last'.key].value
                /\ fetches' = fetches
                /\ inflight' = inflight]_vars
\* Witness of C15: one fetch was made and it succeeded, a second resolve of
\* the same key has just been served its value inside the ttl, and loading
\* is false again.
C15_Witness ==
    /\ last.op = "resolve"
    /\ last.f = NoFetch
    /\ fetches = 1
    /\ key \in DOMAIN written
    /\ written[key].by = "resolve"
    /\ written[key].ttl > 0
    /\ data = written[key].value
    /\ loading = FALSE
    /\ error = NullError
\* ---- C16 -------------------------------------------------------------
\* The operations of the second instance.
PeerOps ==
    {"peer.resolve", "peer.create", "peer.success", "peer.failure",
     "peer.invalidate", "peer.refresh"}
\* C16 (Independent stores): an instance that has not run its effect has an
\* empty store and exposes no value; a step of one instance leaves the store,
\* the state and the pending closures of the other instance as they were,
\* whatever the two keys are; and the first resolve of a newly created
\* instance invokes fetcher() and serves nothing, whatever the other instance
\* or an earlier instance has stored.
C16_IndependentStores ==
    /\ [](/\ ~peer.mounted => (peer.cacheRef = << >> /\ peer.data = NullData)
          /\ ~mounted => (cacheRef = << >> /\ data = NullData))
    /\ [][/\ last'.op \in PeerOps
             => UNCHANGED <<key, ttl, data, loading, error, cacheRef, inflight,
                            mounted>>
          /\ last'.op \notin PeerOps => peer' = peer
          /\ (last'.op = "peer.resolve" /\ ~peer.mounted)
             => /\ Invoked
                /\ peer'.data = NullData
                /\ peer'.cacheRef = << >>
                /\ peer'.inflight = SetToBag({last'.f})
          /\ (last'.op = "resolve" /\ ~mounted)
             => (Invoked /\ data' = NullData /\ inflight' = SetToBag({last'.f}))
         ]_vars
\* Witness of C16: the second instance was newly created and has just run
\* its first resolve, for the key the first instance is rendered with and has
\* a fresh entry for, and it invoked fetcher() with its own store empty.
C16_Witness ==
    /\ last.op = "peer.resolve"
    /\ last.f # NoFetch
    /\ peer.key = key
    /\ IsFresh(MapGet(cacheRef, peer.key), now)
    /\ data = cacheRef[key].data
    /\ peer.cacheRef = << >>
    /\ peer.data = NullData
    /\ peer.inflight = SetToBag({last.f})
\* ---- C17 -------------------------------------------------------------
\* The instances of AthleteResults whose fetcher short-circuits for the
\* component state s.
EmptyInput(c, s) ==
    IF c = "athletes" THEN s.activeSearchText = "" ELSE s.selectedAthlete = <<>>
\* C17 (Empty-term short-circuit): when the athletes fetcher is invoked with
\* an empty active search term, or the results fetcher with no athlete
\* selected, no request is sent and the promise is settled with the empty
\* result (no athletes or no results, total 0); such a fetch cannot fail, and
\* when it completes the empty result is stored under the key the instance
\* was rendered with, with the expiry of any other resolve, and exposed as
\* data with loading false, still without a request.
C17_EmptyTermShortCircuit ==
    [][\A c \in {"athletes", "results"} :
          /\ (/\ last'.op \in {c \o ".resolve", c \o ".refresh"}
              /\ last'.f # NoFetch
              /\ EmptyInput(c, component'))
             => /\ requests' = requests
                /\ last'.f.call.request = <<>>
                /\ last'.f.call.value # <<>>
                /\ IF c = "athletes"
                   THEN /\ last'.f.call.value[1].athletes = <<>>
                        /\ last'.f.call.value[1].pagination.total = 0
                   ELSE /\ last'.f.call.value[1].results = <<>>
                        /\ last'.f.call.value[1].total = 0
                /\ last'.f.key = CacheKey(c, component')
                /\ caches'[c].key = last'.f.key
          /\ (/\ last'.op \in {c \o ".success", c \o ".failure"}
              /\ EmptyInput(c, last'.f.state))
             => /\ last'.op = c \o ".success"
                /\ last'.value = IF c = "athletes" THEN EmptyAthletes ELSE EmptyResults
                /\ IF c = "athletes"
                   THEN last'.value.athletes = <<>> /\ last'.value.pagination.total = 0
                   ELSE last'.value.results = <<>> /\ last'.value.total = 0
                /\ last'.f.key = CacheKey(c, last'.f.state)
                /\ MapGet(caches'[c].cacheRef, last'.f.key)
                      = <<CacheEntry(last'.value, last'.f.now, last'.f.now + CacheMinutes)>>
                /\ caches'[c].data = last'.value
                /\ caches'[c].loading = FALSE
                /\ requests' = requests]_vars
\* Witness of C17: AthleteResults has searched for a name and then for the
\* empty term again; the empty search has just completed, its empty result
\* is the entry of the current key, and so is the empty result of the results
\* instance, for which no athlete is selected; the only request sent is the
\* one of the search for the name.
C17_Witness ==
    /\ page = "AthleteResults"
    /\ last.op = "athletes.success"
    /\ component.activeSearchText = ""
    /\ component.selectedAthlete = <<>>
    /\ last.f.key = caches["athletes"].key
    /\ MapGet(caches["athletes"].cacheRef, AthletesKey("", 1)) # <<>>
    /\ caches["athletes"].cacheRef[AthletesKey("", 1)].data = EmptyAthletes
    /\ caches["athletes"].data = EmptyAthletes
    /\ MapGet(caches["results"].cacheRef, ResultsKey(<<>>, 1)) # <<>>
    /\ caches["results"].cacheRef[ResultsKey(<<>>, 1)].data = EmptyResults
    /\ \E r \in requests : r.url = "/api/athletes"
    /\ \A r \in requests : r.url = "/api/athletes" /\ r.query = "search=jones&page=1"

\* ---- C18 -------------------------------------------------------------
\* C18 (All remote reads go through the cache layer): every request sent to
\* the remote API was sent by a fetcher that useCache's fetchData() or
\* refresh() invoked.
C18_ReadsThroughCache ==
    \A r \in requests : r.chain[1] \in {"useCache.fetchData", "useCache.refresh"}

\* ---- C19 -------------------------------------------------------------
\* C19 (Freshness window starts at the successful fetch): the entry a
\* successful fetch writes, by resolve or by refresh, has the completion
\* time as its timestamp and timestamp + ttl of the writing operation as its
\* expiry, and is fresh when it is written if that ttl is positive.
C19_WindowStartsAtSuccess ==
    [][last'.op = "success"
       => /\ last'.key \in DOMAIN cacheRef'
          /\ cacheRef'[last'.key].timestamp = now'
          /\ cacheRef'[last'.key].expiry = cacheRef'[last'.key].timestamp + last'.f.ttl
          /\ last'.f.ttl > 0 => IsFresh(MapGet(cacheRef', last'.key), now')]_vars

\* ---- C20 -------------------------------------------------------------
\* C20 (Superseded fetch): a resolve step for changed props cancels nothing
\* that is pending; when a fetch succeeds for a key that is no longer the
\* active key, its value becomes the entry of the key it was started for and
\* the entry of the active key is neither created, changed nor removed.
C20_SupersededFetch ==
    [][/\ last'.op = "resolve"
          => \A f \in Pending : CopiesIn(f, inflight') >= CopiesIn(f, inflight)
       /\ (last'.op = "success" /\ last'.key # key)
          => /\ last'.key \in DOMAIN cacheRef'
             /\ cacheRef'[last'.key].data = last'.value
             /\ MapGet(cacheRef', key) = MapGet(cacheRef, key)
             /\ key' = key]_vars
\* Witness of C20: a resolve fetch started for a key that is no longer
\* active has just succeeded and is stored under its own key, while the
\* active key has no entry and its own fetch is still pending.
C20_Witness ==
    /\ last.op = "success"
    /\ last.f.kind = "resolve"
    /\ last.key # key
    /\ last.key \in DOMAIN cacheRef
    /\ cacheRef[last.key].data = last.value
    /\ key \notin DOMAIN cacheRef
    /\ \E f \in Pending : f.key = key

\* ---- C21 -------------------------------------------------------------
\* The number of pending closures in bag b that were started for key k.
InFlightFor(b, k) ==
    BagCardinality([f \in {g \in BagToSet(b) : g.key = k} |-> b[f]])
\* C21 (No single-flight): a resolve for a key with no fresh entry, and every
\* refresh(), invokes fetcher() and suspends one more closure for its key,
\* however many fetches for that key are pending already.
C21_NoSingleFlight ==
    [][(\/ last'.op = "resolve" /\ ~last'.fresh
        \/ last'.op = "refresh")
       => /\ Invoked
          /\ last'.f.key = last'.key
          /\ inflight' = Await(last'.f)
          /\ InFlightFor(inflight', last'.key) = InFlightFor(inflight, last'.key) + 1]_vars
\* Witness of C21: a second resolve for the active key has just invoked
\* fetcher() while the fetch of the first resolve for that key is pending:
\* two fetches for the same key are in flight.
C21_Witness ==
    /\ last.op = "resolve"
    /\ last.f # NoFetch
    /\ last.key = key
    /\ InFlightFor(inflight, key) = 2
    /\ \A f \in Pending : f.kind = "resolve" /\ f.key = key

\* ---- C22 -------------------------------------------------------------
\* The hook instance of the sections above as a value.
Self ==
    [key |-> key, ttl |-> ttl, data |-> data, loading |-> loading,
     error |-> error, cacheRef |-> cacheRef, inflight |-> inflight,
     mounted |-> mounted]
\* The closure of the same resolve in the other case: closure f found an
\* expired entry and its twin found none, or the other way round.
Twin(f) ==
    [f EXCEPT !.cached = IF @ = <<>> THEN <<Payload(f.key, 1)>> ELSE <<>>]
\* C22 (Expired and absent entries differ only on failure): when the fetch of
\* a resolve succeeds, the store, data, loading and error after the step are
\* those the same resolve would have produced from the same state had it
\* found the other case, an expired entry instead of none or none instead of
\* an expired one; when the fetch fails, error, loading and the store are the
\* same in the two cases and data is the value of the entry found in the one
\* case and left as it was in the other.
C22_ExpiredVsAbsent ==
    [][/\ (last'.op = "success" /\ last'.f.kind = "resolve")
          => LET other == HookSuccess(Self, Twin(last'.f), last'.value, now) IN
             /\ cacheRef' = other.cacheRef
             /\ MapGet(cacheRef', last'.key) =
                   <<CacheEntry(last'.value, last'.f.now, last'.f.now + last'.f.ttl)>>
             /\ data' = other.data
             /\ data' = last'.value
             /\ loading' = other.loading
             /\ error' = other.error
       /\ (last'.op = "failure" /\ last'.f.kind = "resolve")
          => /\ \E m \in Messages :
                  LET other == HookFailure(Self, Twin(last'.f), m) IN
                  /\ error' = other.error
                  /\ loading' = other.loading
                  /\ cacheRef' = other.cacheRef
             /\ data' = IF last'.f.cached # <<>> THEN last'.f.cached[1] ELSE data]_vars
\* Witness of C22: a resolve that had found an expired entry has just
\* succeeded with a value other than the entry's, which is now stored and
\* exposed.
C22_Witness ==
    /\ last.op = "success"
    /\ last.f.kind = "resolve"
    /\ last.f.cached # <<>>
    /\ last.f.cached[1] # last.value
    /\ cacheRef[last.key].data = last.value
    /\ data = last.value
    /\ loading = FALSE

\* ---- C23 -------------------------------------------------------------
\* C23 (Error is a message string): a step in which a fetch fails, started
\* by resolve or by refresh, sets error to the message of the error it caught
\* if that message is not empty and to 'Failed to fetch data' if it is, so
\* that error is a non-empty string and not null after the step.
C23_ErrorIsMessage ==
    [][last'.op = "failure"
       => /\ last'.f.kind \in {"resolve", "refresh"}
          /\ last'.message # <<>>
          /\ error' = IF last'.message[1] # "" THEN last'.message[1]
                      ELSE "Failed to fetch data"
          /\ error' # NullError
          /\ error' # ""]_vars
\* Witness of C23: the fetch of a refresh() has just failed with an error
\* whose message is empty, and error is the fixed text.
C23_Witness ==
    /\ last.op = "failure"
    /\ last.f.kind = "refresh"
    /\ last.message = <<"">>
    /\ error = "Failed to fetch data"
    /\ loading = FALSE

\* ---- C24 -------------------------------------------------------------
\* C24 (Exposed data belongs to the active key): in every state data is null
\* or a value that fetcher() returned for the key of the latest render.
C24_DataOfActiveKey ==
    data = NullData \/ data.for = key

\* ---- C25 -------------------------------------------------------------
\* C25 (Loading covers the active key's fetch): in every state in which a
\* fetch started by a resolve or a refresh() for the key of the latest render
\* is pending, loading is true.
C25_LoadingCoversActiveFetch ==
    (\E f \in Pending : f.key = key) => loading

\* ---- C26 -------------------------------------------------------------
\* C26 (Loading is false at rest): in every state in which no fetch is
\* pending loading is false; every step in which a fetch completes, by
\* success or by failure, leaves loading false; and, every pending fetch
\* completing eventually, a state with loading true is followed by a state
\* with loading false.
C26_LoadingFalseAtRest ==
    /\ [](inflight = EmptyBag => loading = FALSE)
    /\ [][last'.op \in {"success", "failure"} => loading' = FALSE]_vars
    /\ (loading ~> ~loading)
\* Witness of C26: all the fetches the run may make were started, the last
\* of them to complete has just failed, and loading is false with nothing
\* pending.
C26_Witness ==
    /\ last.op = "failure"
    /\ fetches = budget
    /\ inflight = EmptyBag
    /\ loading = FALSE
    /\ error # NullError

\* ---- C27 -------------------------------------------------------------
\* C27 (Evictions are not undone by earlier fetches): when invalidate() or
\* refresh() has removed the entry of a key and the next step is the
\* successful completion of a fetch for that key that was pending before the
\* removal, the step puts no entry for the key into the store and leaves
\* data as it was. For a removal by refresh() the fetches that were pending
\* before it are those other than the closure refresh() itself suspended.
C27_EvictionNotUndone ==
    [][(/\ last.op \in {"invalidate", "refresh"}
        /\ last.before # <<>>
        /\ last.key \notin DOMAIN cacheRef
        /\ last'.op = "success"
        /\ last'.key = last.key
        /\ last'.f # last.f)
       => (last'.key \notin DOMAIN cacheRef' /\ data' = data)]_vars

\* ---- C28 -------------------------------------------------------------
\* The fetch completing in step s overlapped a fetch for the same key that
\* has completed successfully: the key has an entry that was written while
\* the fetch of s was pending, refresh() having deleted the entry when it
\* started and the resolve having found none.
Overlapped(s) ==
    /\ s.before # <<>>
    /\ s.f.kind = "refresh" \/ s.f.cached = <<>>
\* C28 (Overlapping fetches, last completion wins): when a fetch succeeds
\* after an overlapping fetch for the same key has succeeded, the entry of
\* the key and data hold the value of the fetch that has just completed,
\* whichever of the two was started first; the expiry of the entry is the
\* start time of the resolve plus its ttl if the completing fetch was started
\* by resolve, and the completion time plus the ttl if by refresh().
C28_LastCompletionWins ==
    [][(last'.op = "success" /\ Overlapped(last'))
       => LET f == last'.f
              from == IF f.kind = "resolve" THEN f.now ELSE now'
          IN  /\ MapGet(cacheRef', f.key) =
                    <<CacheEntry(last'.value, from, from + f.ttl)>>
              /\ data' = last'.value]_vars
\* Witness of C28: two resolves for the same key overlapped and both
\* succeeded; the one started first has just completed last, replacing the
\* entry and the value of the one started later, and the entry expires at
\* the earlier start time plus the ttl of the earlier resolve.
C28_Witness ==
    /\ last.op = "success"
    /\ last.f.kind = "resolve"
    /\ Overlapped(last)
    /\ last.before[1].timestamp > last.f.now
    /\ last.before[1].data # last.value
    /\ cacheRef[last.key].data = last.value
    /\ cacheRef[last.key].expiry = last.f.now + last.f.ttl
    /\ data = last.value

\* ---- C29 -------------------------------------------------------------
\* C29 (Stale fallback serves the snapshot taken at resolve start): the
\* closure of a resolve keeps the value the key's entry had when the resolve
\* started; when its fetch fails data becomes that value, whether the key's
\* entry is still the same, has been replaced or has been removed in the
\* meantime, and the failure restores nothing in the store.
C29_FallbackServesSnapshot ==
    [][/\ (last'.op = "resolve" /\ last'.f # NoFetch)
          => last'.f.cached = IF last'.before = <<>> THEN <<>>
                              ELSE <<last'.before[1].data>>
       /\ (last'.op = "failure" /\ last'.f.kind = "resolve" /\ last'.f.cached # <<>>)
          => /\ data' = last'.f.cached[1]
             /\ MapGet(cacheRef', last'.key) = last'.before]_vars
\* Witness of C29: invalidate() removed the entry while the fetch of a
\* resolve that had found it was pending; the fetch has just failed, data is
\* the value of the removed entry and the store has no entry for the key.
C29_Witness ==
    /\ last.op = "failure"
    /\ last.f.kind = "resolve"
    /\ last.f.cached # <<>>
    /\ last.key = key
    /\ last.key \notin DOMAIN cacheRef
    /\ data = last.f.cached[1]
    /\ data # NullData

\* ---- C30 -------------------------------------------------------------
\* C30 (Provenance of stored values): in every state the value of the entry
\* of a key is a payload fetcher() returned for that key; and an entry that
\* is new or differs from the one before the step was written by the step in
\* which a pending fetch, started by a resolve or a refresh() for that key,
\* completed successfully, and its value is the payload that fetch returned.
C30_Provenance ==
    /\ [](\A k \in DOMAIN cacheRef :
             /\ k \in Keys
             /\ cacheRef[k].data \in {Payload(k, n) : n \in Versions})
    /\ [][\A k \in Keys :
             (MapGet(cacheRef', k) # <<>> /\ MapGet(cacheRef', k) # MapGet(cacheRef, k))
             => /\ last'.op = "success"
                /\ last'.f.kind \in {"resolve", "refresh"}
                /\ last'.f.key = k
                /\ BagIn(last'.f, inflight)
                /\ last'.value \in {Payload(k, n) : n \in Versions}
                /\ cacheRef'[k].data = last'.value]_vars
\* Witness of C30: the fetch started for a key that is no longer active has
\* just completed after the fetch for the active key, and each of the two
\* keys holds the payload fetched for it.
C30_Witness ==
    /\ last.op = "success"
    /\ last.key # key
    /\ DOMAIN cacheRef = Keys
    /\ \A k \in Keys : cacheRef[k].data.for = k
    /\ cacheRef[last.key].data = last.value
    /\ inflight = EmptyBag

====
